---- MODULE Spec2Model ----
(***************************************************************************)
(* PioneerAI-Core: the attention orchestrator (process_messages,          *)
(* stream_process_messages) and the AttentionCache it shares.              *)
(*                                                                         *)
(* Text is a sequence of chunks: the chunk " " is one whitespace           *)
(* character, every other chunk is an indivisible run of non-whitespace    *)
(* characters.  Confidences are in hundredths (0.85 is 85).                *)
(* processing_time is not modelled.  Beside them: the remote chat client   *)
(* with its retry decorator, the conversation memory and its flush tasks,  *)
(* and the attention modules at the level of tensor shapes and of the      *)
(* attention weights of one batch element.                                 *)
(*                                                                         *)
(* src/modules/attention_orchestrator.py holds both sides of an unresolved *)
(* merge and lost its indentation between the markers; both sides carry    *)
(* the same statements.  process_messages is read with the nesting its     *)
(* comments give: the fallback block (lines 390-404) belongs to the local  *)
(* branch of hybrid mode, and the else of line 405 to the                  *)
(* _should_use_local_attention test of line 381.                           *)
(***************************************************************************)
EXTENDS Integers, Sequences, FiniteSets, TLC

\* ------------------------------------------------------------------------
\* Bounds of the model
\* ------------------------------------------------------------------------
MaxSize == 2            \* capacity given to AttentionCache(max_size)
MaxCount == 2           \* an access counter is not driven above this
MaxDModel == 12         \* d_model given to MultiHeadAttention
MaxHeads == 8           \* num_heads given to MultiHeadAttention
MaxRequests == 4        \* API requests issued by one chat client
MaxTurns == 6           \* conversation turns added in one session
MaxFlushTasks == 2      \* flush tasks created by add_turn that exist at once
MaxBatch == 2           \* batch size of a tensor
MaxSeq == 2             \* sequence length of a tensor (and max_seq_len)
MaxScore == 1           \* an attention score lies in 0..MaxScore

\* ------------------------------------------------------------------------
\* Program constants
\* ------------------------------------------------------------------------
LOCAL_WORD_THRESHOLD == 100     \* total_tokens < 100
CACHE_MIN_CONFIDENCE == 50      \* result.confidence > 0.5
LOCAL_CONFIDENCE == 85          \* confidence = 0.85
OPENAI_CONFIDENCE == 95         \* 0.95 if success
FAILURE_CONFIDENCE == 0         \* confidence=0.0
HYBRID_MODE_THRESHOLD_DEFAULT == 80   \* os.getenv("HYBRID_MODE_THRESHOLD", 0.8)
TEST_CACHE_SIZE == 3                  \* AttentionCache(max_size=3) of TestAttentionCache
MAX_RETRIES == 3                      \* @retry_with_backoff(max_retries=3)
WRITE_BUFFER_SIZE == 5                \* self.write_buffer_size = 5
DROPOUT_PERCENT == 10                 \* dropout: float = 0.1
TOLERANCE_INV == 1000000              \* atol=1e-6
TEST_ENCODER_LAYERS == 2              \* num_encoder_layers=2 of TestAttentionModel

\* ------------------------------------------------------------------------
\* Text: str.split() and " ".join()
\* ------------------------------------------------------------------------
SP == " "

RECURSIVE Split(_)
\* s.split(): the maximal runs of non-whitespace of s, in order (computed by
\* cutting s at the whitespace nearest to its middle)
Split(s) ==
    LET spaces == {i \in DOMAIN s : s[i] = SP}
        mid == (Len(s) + 1) \div 2
        right == {i \in spaces : i >= mid}
        cut == IF right # {}
               THEN CHOOSE i \in right : \A j \in right : i <= j
               ELSE CHOOSE i \in spaces : \A j \in spaces : i >= j
    IN  IF s = <<>> THEN <<>>
        ELSE IF spaces = {} THEN <<s>>
        ELSE Split(SubSeq(s, 1, cut - 1)) \o Split(SubSeq(s, cut + 1, Len(s)))

RECURSIVE Join(_)
\* " ".join(parts)
Join(parts) ==
    IF parts = <<>> THEN <<>>
    ELSE IF Len(parts) = 1 THEN parts[1]
    ELSE parts[1] \o <<SP>> \o Join(Tail(parts))

\* a text of n words separated by single spaces
Words(n) ==
    IF n = 0 THEN <<>>
    ELSE [i \in 1..(2 * n - 1) |-> IF i % 2 = 1 THEN "w" ELSE SP]

\* ------------------------------------------------------------------------
\* ChatMessage and the requests submitted
\* ------------------------------------------------------------------------
ChatMessage(role, content) == [role |-> role, content |-> content]

\* two texts just below and two at the word threshold, each given once as one
\* message and once cut into two messages
Requests ==
    << << ChatMessage("user", Words(LOCAL_WORD_THRESHOLD - 1)) >>,
       << ChatMessage("user", Words(60)), ChatMessage("assistant", Words(LOCAL_WORD_THRESHOLD - 61)) >>,
       << ChatMessage("user", Words(LOCAL_WORD_THRESHOLD)) >>,
       << ChatMessage("user", Words(60)), ChatMessage("user", Words(LOCAL_WORD_THRESHOLD - 60)) >> >>

ReqIds == 1..Len(Requests)

Contents(messages) == [i \in 1..Len(messages) |-> messages[i].content]

\* hashlib.md5(text.encode()).hexdigest(), taken to be free of collisions
Md5Hex(text) == <<"md5:">> \o text

_create_cache_key(messages) == Md5Hex(Join(Contents(messages)))

RECURSIVE SumLen(_)
SumLen(contents) ==
    IF contents = <<>> THEN 0
    ELSE Len(Split(contents[1])) + SumLen(Tail(contents))

\* sum(len(msg.content.split()) for msg in messages)
total_tokens(messages) == SumLen(Contents(messages))

\* float(os.getenv("HYBRID_MODE_THRESHOLD", 0.8)): the default, and 0.9 as a
\* value set through the environment
Thresholds == {HYBRID_MODE_THRESHOLD_DEFAULT, 90}

\* mutant: the threshold taken inclusively
_should_use_local_attention_Inclusive(mode, messages) ==
    IF mode = "hybrid"
    THEN total_tokens(messages) <= LOCAL_WORD_THRESHOLD
    ELSE mode = "local"

_should_use_local_attention(mode, messages) ==
    IF mode = "hybrid"
    THEN total_tokens(messages) < LOCAL_WORD_THRESHOLD
    ELSE mode = "local"

\* ------------------------------------------------------------------------
\* Values: AttentionResult objects and torch tensors
\* ------------------------------------------------------------------------
\* AttentionResult(content, confidence, processing_time, method)
AttentionResult(content, confidence, method) ==
    [kind |-> "result", content |-> content, confidence |-> confidence,
     method |-> method, elems |-> "none"]

\* a tensor, described by what bool() makes of it: one non-zero element,
\* one zero element, or several elements
Tensor(elems) ==
    [kind |-> "tensor", content |-> <<>>, confidence |-> 0,
     method |-> "", elems |-> elems]

None == [kind |-> "none", content |-> <<>>, confidence |-> 0,
         method |-> "", elems |-> "none"]

Tensors == {Tensor("nonzero"), Tensor("zero"), Tensor("many")}

\* bool(v) as `if cached_result:` evaluates it: an object without __bool__
\* is true, None is false, a one-element tensor is its element, a tensor of
\* several elements raises RuntimeError
Truth(v) ==
    CASE v.kind = "none" -> "false"
      [] v.kind = "result" -> "true"
      [] v.kind = "tensor" /\ v.elems = "nonzero" -> "true"
      [] v.kind = "tensor" /\ v.elems = "zero" -> "false"
      [] OTHER -> "error"

\* value.clone().detach() exists on tensors only; AttentionResult is a plain
\* dataclass and the attribute lookup raises AttributeError
HasClone(v) == v.kind = "tensor"

\* ------------------------------------------------------------------------
\* AttentionCache: self.cache (key -> value) and self.access_count, a dict
\* kept as the sequence of its items in insertion order
\* ------------------------------------------------------------------------
CountKeys(ac) == {ac[i].key : i \in DOMAIN ac}

CountOf(ac, key) ==
    IF key \in CountKeys(ac)
    THEN (CHOOSE i \in DOMAIN ac : ac[i].key = key)
    ELSE 0

\* self.access_count.get(key, 0)
CountGet(ac, key) == IF CountOf(ac, key) = 0 THEN 0 ELSE ac[CountOf(ac, key)].n

\* mutant: an assignment moves the key to the end of the dict
CountSet_MoveToEnd(ac, key, n) ==
    Append(SelectSeq(ac, LAMBDA e : e.key # key), [key |-> key, n |-> n])

\* self.access_count[key] = n : in place for a present key, appended otherwise
CountSet(ac, key, n) ==
    IF key \in CountKeys(ac)
    THEN [i \in DOMAIN ac |-> IF ac[i].key = key THEN [key |-> key, n |-> n] ELSE ac[i]]
    ELSE Append(ac, [key |-> key, n |-> n])

\* mutant: the counter of a removed entry stays
CountDel_Keep(ac, key) == ac

\* del self.access_count[key]
CountDel(ac, key) == SelectSeq(ac, LAMBDA e : e.key # key)

\* del self.cache[key]
MapDel(c, key) == [k \in DOMAIN c \ {key} |-> c[k]]

\* self.cache[key] = value
MapSet(c, key, value) == [k \in DOMAIN c \cup {key} |-> IF k = key THEN value ELSE c[k]]

EmptyMap == [k \in {} |-> None]

\* AttentionCache.__init__: max_size is stored as it is given
CacheInit(n) == [max_size |-> n, cache |-> EmptyMap, access_count |-> <<>>, exc |-> ""]

\* value.clone().detach(): a new tensor of the same elements
CloneDetach(value) == Tensor(value.elems)

\* mutant: the counter is left alone
CacheGet_NoCount(c, ac, key) ==
    [cache |-> c, access_count |-> ac,
     value |-> IF key \in DOMAIN c THEN c[key] ELSE None]

\* AttentionCache.get
CacheGet(c, ac, key) ==
    IF key \in DOMAIN c
    THEN [cache |-> c,
          access_count |-> CountSet(ac, key, CountGet(ac, key) + 1),
          value |-> c[key]]
    ELSE [cache |-> c, access_count |-> ac, value |-> None]

\* mutant: the entry inserted first is evicted, whatever its counter
LruKey_Oldest(ac) == ac[1].key

\* mutant: of the keys of smallest counter the last one is taken
LruKey_LastMin(ac) ==
    ac[CHOOSE i \in DOMAIN ac :
          /\ \A j \in DOMAIN ac : ac[i].n <= ac[j].n
          /\ \A j \in (i + 1)..Len(ac) : ac[j].n > ac[i].n].key

\* min(self.access_count.keys(), key=self.access_count.get): the first key,
\* in insertion order, whose counter is the smallest
LruKey(ac) ==
    ac[CHOOSE i \in DOMAIN ac :
          /\ \A j \in DOMAIN ac : ac[i].n <= ac[j].n
          /\ \A j \in 1..(i - 1) : ac[j].n > ac[i].n].key

\* mutant: eviction only once the capacity is exceeded
NeedsEviction_Late(c, max_size) == Cardinality(DOMAIN c) > max_size

\* the eviction block of AttentionCache.put
NeedsEviction(c, max_size) == Cardinality(DOMAIN c) >= max_size

\* mutant: a key that is still stored keeps its counter
CachePut_KeepCounter(c, ac, max_size, key, value) ==
    LET evict == NeedsEviction(c, max_size)
        victim == LruKey(ac)
        c1 == IF evict THEN MapDel(c, victim) ELSE c
        ac1 == IF evict THEN CountDel(ac, victim) ELSE ac
        gone == IF evict THEN {victim} ELSE {}
    IN  IF evict /\ ac = <<>>
        THEN [cache |-> c, access_count |-> ac, exc |-> "ValueError", evicted |-> {}]
        ELSE IF ~HasClone(value)
        THEN [cache |-> c1, access_count |-> ac1, exc |-> "AttributeError", evicted |-> gone]
        ELSE [cache |-> MapSet(c1, key, CloneDetach(value)),
              access_count |-> IF key \in CountKeys(ac1) THEN ac1 ELSE CountSet(ac1, key, 1),
              exc |-> "", evicted |-> gone]

\* AttentionCache.put: eviction first, then the clone of the value, which
\* raises for a value without clone() and leaves the eviction done
CachePut(c, ac, max_size, key, value) ==
    LET evict == NeedsEviction(c, max_size)
        victim == LruKey(ac)
        c1 == IF evict THEN MapDel(c, victim) ELSE c
        ac1 == IF evict THEN CountDel(ac, victim) ELSE ac
        gone == IF evict THEN {victim} ELSE {}
    IN  IF evict /\ ac = <<>>
        THEN [cache |-> c, access_count |-> ac, exc |-> "ValueError", evicted |-> {}]
        ELSE IF ~HasClone(value)
        THEN [cache |-> c1, access_count |-> ac1, exc |-> "AttributeError", evicted |-> gone]
        ELSE [cache |-> MapSet(c1, key, CloneDetach(value)),
              access_count |-> CountSet(ac1, key, 1),
              exc |-> "", evicted |-> gone]

\* ------------------------------------------------------------------------
\* MultiHeadAttention.__init__
\* ------------------------------------------------------------------------
\* Python's a // b and a % b for b # 0 (the quotient is rounded down)
PyFloorDiv(a, b) == IF b > 0 THEN a \div b ELSE (0 - a) \div (0 - b)

PyMod(a, b) == a - b * PyFloorDiv(a, b)

Rejected(d_model, num_heads, exc) ==
    [tried |-> TRUE, exc |-> exc, d_model |-> d_model, num_heads |-> num_heads, d_k |-> 0]

\* mutant: the assert is gone
MultiHeadAttention_init_NoAssert(d_model, num_heads) ==
    IF num_heads = 0 THEN Rejected(d_model, num_heads, "ZeroDivisionError")
    ELSE [tried |-> TRUE, exc |-> "", d_model |-> d_model, num_heads |-> num_heads,
          d_k |-> PyFloorDiv(d_model, num_heads)]

\* assert d_model % num_heads == 0; self.d_k = d_model // num_heads
MultiHeadAttention_init(d_model, num_heads) ==
    IF num_heads = 0 THEN Rejected(d_model, num_heads, "ZeroDivisionError")
    ELSE IF PyMod(d_model, num_heads) # 0
    THEN Rejected(d_model, num_heads, "AssertionError")
    ELSE [tried |-> TRUE, exc |-> "", d_model |-> d_model, num_heads |-> num_heads,
          d_k |-> PyFloorDiv(d_model, num_heads)]

\* ------------------------------------------------------------------------
\* The two paths of the orchestrator
\* ------------------------------------------------------------------------
LocalOkText ==
    <<"Local", SP, "attention", SP, "processing", SP, "completed", SP, "successfully.">>
LocalErrorText == <<"Local", SP, "processing", SP, "error:", SP, "E">>
OpenAIErrorText == <<"OpenAI", SP, "processing", SP, "error:", SP, "E">>
\* the text chat_completion returns together with success = False
ClientFailureText == <<"[HATA]", SP, "Yanit", SP, "alinamadi:", SP, "E">>
\* texts a successful completion returns
RemoteTexts == { <<"a", SP, SP, "b", SP, "c">>, <<>> }

\* The encoder and the client are collaborators: every outcome their
\* signatures allow is taken, whatever their present bodies do.
LocalOutcomes == {"ok", "raise"}          \* encode_text returns or raises
RemoteOutcomes == {"ok", "fail", "raise"} \* (text, True), (text, False), raises

\* _process_with_local_attention: the try block and its except
_process_with_local_attention(lo) ==
    IF lo = "ok"
    THEN AttentionResult(LocalOkText, LOCAL_CONFIDENCE, "local")
    ELSE AttentionResult(LocalErrorText, FAILURE_CONFIDENCE, "local")

\* mutant: the confidence does not look at success
_process_with_openai_IgnoreSuccess(ro, text) ==
    CASE ro = "ok" -> AttentionResult(text, OPENAI_CONFIDENCE, "openai")
      [] ro = "fail" -> AttentionResult(ClientFailureText, OPENAI_CONFIDENCE, "openai")
      [] OTHER -> AttentionResult(OpenAIErrorText, FAILURE_CONFIDENCE, "openai")

\* _process_with_openai: the try block and its except
_process_with_openai(ro, text) ==
    CASE ro = "ok" -> AttentionResult(text, OPENAI_CONFIDENCE, "openai")
      [] ro = "fail" -> AttentionResult(ClientFailureText, FAILURE_CONFIDENCE, "openai")
      [] OTHER -> AttentionResult(OpenAIErrorText, FAILURE_CONFIDENCE, "openai")

Modes == {"openai", "local", "hybrid"}

\* mutant: the word count decides in every mode
FirstPath_ByWords(mode, messages) ==
    IF total_tokens(messages) < LOCAL_WORD_THRESHOLD THEN "local" ELSE "openai"

\* the branch process_messages takes first
FirstPath(mode, messages) ==
    IF mode = "openai" THEN "openai"
    ELSE IF mode = "local" THEN "local"
    ELSE IF _should_use_local_attention(mode, messages) THEN "local"
    ELSE "openai"

\* the fallback block is inside the hybrid branch
FallbackReachable(mode) == mode \notin {"openai", "local"}

\* if result.confidence < HYBRID_MODE_THRESHOLD
NeedsFallback(result, threshold) == result.confidence < threshold

\* mutant: the winner keeps the method it came with
PickResult_KeepMethod(result, openai_result) ==
    IF openai_result.confidence > result.confidence THEN openai_result ELSE result

\* if openai_result.confidence > result.confidence: result = openai_result;
\* result.method = "hybrid"
PickResult(result, openai_result) ==
    IF openai_result.confidence > result.confidence
    THEN [openai_result EXCEPT !.method = "hybrid"]
    ELSE result

\* mutant: every result is cached
ShouldCache_Always(caching, result) == caching

\* if use_cache and attention_cache and result.confidence > 0.5
ShouldCache(caching, result) == caching /\ result.confidence > CACHE_MIN_CONFIDENCE

\* ------------------------------------------------------------------------
\* stream_process_messages: the fragment yielded for the i-th word
\* ------------------------------------------------------------------------
\* mutant: every fragment starts with a space
StreamFragment_AlwaysSpace(words, i) == <<SP>> \o words[i]

StreamFragment(words, i) == IF i = 1 THEN words[1] ELSE <<SP>> \o words[i]

StreamErrorFragment == <<"[Stream", SP, "Error:", SP, "E]">>

\* ------------------------------------------------------------------------
\* State
\* ------------------------------------------------------------------------
VARIABLES
    ATTENTION_MODE,           \* config.settings.ATTENTION_MODE
    HYBRID_MODE_THRESHOLD,    \* config.settings.HYBRID_MODE_THRESHOLD
    ATTENTION_CACHE_ENABLED,  \* attention_cache is an AttentionCache, not None
    max_size,                 \* attention_cache.max_size
    cache,                    \* attention_cache.cache
    access_count,             \* attention_cache.access_count
    call,                     \* the process_messages call in flight, or the one
                              \* that just ended (until the cache is used again)
    stream,                   \* the stream_process_messages generator
    last,                     \* the cache operation just made through the cache's own interface
    probe,                    \* two message lists and the keys computed for them
    mha,                      \* the MultiHeadAttention construction just attempted
    threads,                  \* request threads inside AttentionCache.get / put
    chat,                     \* the AsyncChatClient.chat_completion call in flight
    mem,                      \* AsyncMemoryManager, its files and its flush tasks
    att,                      \* a ScaledDotProductAttention module and its last forward
    enc                       \* the AttentionModel.encode_text call in flight

vars == <<ATTENTION_MODE, HYBRID_MODE_THRESHOLD, ATTENTION_CACHE_ENABLED, max_size,
          cache, access_count, call, stream, last, probe, mha, threads,
          chat, mem, att, enc>>

config == <<ATTENTION_MODE, HYBRID_MODE_THRESHOLD, ATTENTION_CACHE_ENABLED, max_size>>

NoCall ==
    [pc |-> "idle", req |-> 1, use_cache |-> FALSE, via |-> "process",
     lookup |-> "skipped", cached |-> None, stage |-> "none",
     lo |-> "", ro |-> "",
     local |-> None, remote |-> None, result |-> None,
     nLocal |-> 0, nRemote |-> 0,
     putArg |-> None, evicted |-> {}, ret |-> None, exc |-> "",
     follows |-> FALSE, first |-> None]

NoStream == [pc |-> "idle", failed |-> FALSE, content |-> <<>>, words |-> <<>>,
             i |-> 0, out |-> <<>>]

NoOp == [op |-> "none", key |-> <<>>, value |-> None, exc |-> "",
         before |-> EmptyMap, counts |-> <<>>,
         recent |-> <<>>, recentBefore |-> <<>>, created |-> <<>>, createdBefore |-> <<>>]

NoProbe == [a |-> <<>>, b |-> <<>>, ka |-> <<>>, kb |-> <<>>, done |-> FALSE]

\* no MultiHeadAttention constructed yet
NoModule == [tried |-> FALSE, exc |-> "", d_model |-> 0, num_heads |-> 0, d_k |-> 0]

\* the request threads of the web server (app.run(..., threaded=True))
ThreadIds == {1, 2}

NoThread == [pc |-> "idle", op |-> "none", key |-> <<>>, value |-> None,
             victim |-> <<>>, exc |-> ""]

\* no chat_completion called yet
NoChat == [pc |-> "idle", req |-> 1, model |-> "", attempt |-> 0, requests |-> 0,
           outcome |-> "", text |-> <<>>, success |-> FALSE, exc |-> "", issued |-> 0]

\* flush 0 is the flush_to_disk awaited by cleanup, the others are the tasks
\* made by add_turn
FlushIds == 0..MaxFlushTasks

NoFlush == [pc |-> "idle", data |-> <<>>, i |-> 0]

\* AsyncMemoryManager.__init__, MEMORY_JSON and MEMORY_TXT not yet written
NoMem == [n |-> 0, pending_writes |-> <<>>, json |-> <<>>, txt |-> <<>>,
          locked |-> FALSE, closing |-> FALSE,
          flush |-> [t \in FlushIds |-> NoFlush]]

\* ScaledDotProductAttention.__init__: an nn.Module starts in training mode
NoAttention == [pc |-> "idle", training |-> TRUE, query |-> <<>>, masked |-> FALSE,
                weights |-> <<>>, output |-> <<>>, exc |-> ""]

NoEncode == [pc |-> "idle", input |-> <<>>, given |-> FALSE, x |-> <<>>, mask |-> <<>>,
             d_model |-> 0, num_heads |-> 0, layer |-> 0, ret |-> <<>>, exc |-> ""]

InitConfig ==
    /\ ATTENTION_MODE \in Modes
    /\ HYBRID_MODE_THRESHOLD \in Thresholds
    /\ ATTENTION_CACHE_ENABLED \in BOOLEAN

InitRest ==
    /\ cache = EmptyMap
    /\ access_count = <<>>
    /\ call = NoCall
    /\ stream = NoStream
    /\ last = NoOp
    /\ probe = NoProbe
    /\ mha = NoModule
    /\ threads = [t \in ThreadIds |-> NoThread]
    /\ chat = NoChat
    /\ mem = NoMem
    /\ att = NoAttention
    /\ enc = NoEncode

Init ==
    /\ InitConfig
    /\ max_size \in 1..MaxSize
    /\ InitRest

\* ------------------------------------------------------------------------
\* process_messages
\* ------------------------------------------------------------------------
\* the key and the first branch of every request, computed once
ReqKey == [r \in ReqIds |-> _create_cache_key(Requests[r])]

ReqPath == [m \in Modes |-> [r \in ReqIds |-> FirstPath(m, Requests[r])]]

Keys == {ReqKey[r] : r \in ReqIds}

Caching(c) == c.use_cache /\ ATTENTION_CACHE_ENABLED

Ended(c) == c.pc \in {"returned", "raised"}

\* mutant: an exception of process_messages ends the stream without a fragment
StreamAfter_Silent(c, st) ==
    IF c.via # "stream" THEN st
    ELSE IF c.pc = "returned" /\ c.ret.kind = "result"
    THEN [pc |-> "yielding", failed |-> FALSE, content |-> c.ret.content,
          words |-> Split(c.ret.content), i |-> 0, out |-> <<>>]
    ELSE [pc |-> "ended", failed |-> TRUE, content |-> <<>>, words |-> <<>>,
          i |-> 0, out |-> <<>>]

\* stream_process_messages after `result = await self.process_messages(messages)`:
\* result.content.split() of a returned AttentionResult, the except branch
\* for an exception (a tensor handed back by the cache has no content)
StreamAfter(c, st) ==
    IF c.via # "stream" THEN st
    ELSE IF c.pc = "returned" /\ c.ret.kind = "result"
    THEN [pc |-> "yielding", failed |-> FALSE, content |-> c.ret.content,
          words |-> Split(c.ret.content), i |-> 0, out |-> <<>>]
    ELSE [pc |-> "failing", failed |-> TRUE, content |-> <<>>, words |-> <<>>,
          i |-> 0, out |-> <<>>]

\* lines 414-432: the cache write and the return of `result`
Conclude(c, result, cch, ac) ==
    LET doPut == ShouldCache(Caching(c), result)
        p == CachePut(cch, ac, max_size, ReqKey[c.req], result)
        ended ==
            IF doPut /\ p.exc # ""
            THEN [c EXCEPT !.pc = "raised", !.result = result, !.putArg = result,
                           !.evicted = p.evicted, !.exc = p.exc]
            ELSE [c EXCEPT !.pc = "returned", !.result = result, !.ret = result,
                           !.putArg = IF doPut THEN result ELSE None,
                           !.evicted = IF doPut THEN p.evicted ELSE {}]
    IN  [call |-> ended,
         cache |-> IF doPut THEN p.cache ELSE cch,
         access_count |-> IF doPut THEN p.access_count ELSE ac]

\* the call is received and runs to its first wait for the remote client,
\* or to its end when it needs none: lines 360-406
Begin(req, uc, via, lo) ==
    /\ call.pc \in {"idle", "returned", "raised"}
    /\ stream.pc \in {"idle", "ended"}
    /\ via = "stream" => uc
    /\ LET messages == Requests[req]
           caching == uc /\ ATTENTION_CACHE_ENABLED
           key == ReqKey[req]
           got == IF caching
                  THEN CacheGet(cache, access_count, key)
                  ELSE [cache |-> cache, access_count |-> access_count, value |-> None]
           stored == caching /\ key \in DOMAIN cache
           truth == Truth(got.value)
           follows == /\ Ended(call)
                      /\ caching /\ Caching(call)
                      /\ call.lookup = "miss"
                      /\ call.result.confidence > CACHE_MIN_CONFIDENCE
                      /\ Requests[call.req] = messages
           base == [NoCall EXCEPT !.req = req, !.use_cache = uc, !.via = via,
                                  !.cached = got.value,
                                  !.follows = follows,
                                  !.first = IF follows THEN call.result ELSE None,
                                  !.lookup = IF ~caching THEN "skipped"
                                             ELSE IF ~stored THEN "miss"
                                             ELSE IF truth = "true" THEN "hit"
                                             ELSE IF truth = "false" THEN "falsy"
                                             ELSE "error"]
           local == _process_with_local_attention(lo)
           done == Conclude([base EXCEPT !.local = local, !.lo = lo, !.nLocal = 1,
                                         !.stage = "local"],
                            local, got.cache, got.access_count)
       IN  /\ stored => CountGet(access_count, key) < MaxCount
           /\ IF stored /\ truth = "true"
              THEN /\ call' = [base EXCEPT !.pc = "returned", !.ret = got.value]
                   /\ cache' = got.cache
                   /\ access_count' = got.access_count
              ELSE IF stored /\ truth = "error"
              THEN /\ call' = [base EXCEPT !.pc = "raised", !.exc = "RuntimeError"]
                   /\ cache' = got.cache
                   /\ access_count' = got.access_count
              ELSE IF ReqPath[ATTENTION_MODE][req] = "openai"
              THEN /\ call' = [base EXCEPT !.pc = "await_remote", !.stage = "direct"]
                   /\ cache' = got.cache
                   /\ access_count' = got.access_count
              ELSE IF FallbackReachable(ATTENTION_MODE)
                      /\ NeedsFallback(local, HYBRID_MODE_THRESHOLD)
              THEN /\ call' = [base EXCEPT !.pc = "await_remote", !.stage = "fallback",
                                           !.local = local, !.lo = lo,
                                           !.result = local, !.nLocal = 1]
                   /\ cache' = got.cache
                   /\ access_count' = got.access_count
              ELSE /\ call' = done.call
                   /\ cache' = done.cache
                   /\ access_count' = done.access_count
    /\ stream' = IF via = "stream"
                 THEN IF call'.pc = "await_remote"
                      THEN [NoStream EXCEPT !.pc = "computing"]
                      ELSE StreamAfter(call', NoStream)
                 ELSE NoStream
    /\ UNCHANGED <<config, last, probe, mha, threads, chat, mem, att, enc>>

\* the remote client answers: the rest of _process_with_openai, the choice
\* of lines 401-404 after a fallback, the cache write and the return
RemoteReturn(ro, text) ==
    /\ call.pc = "await_remote"
    /\ ro # "ok" => text = <<>>
    /\ LET openai_result == _process_with_openai(ro, text)
           result == IF call.stage = "fallback"
                     THEN PickResult(call.local, openai_result)
                     ELSE openai_result
           done == Conclude([call EXCEPT !.remote = openai_result, !.ro = ro,
                                         !.nRemote = @ + 1],
                            result, cache, access_count)
       IN  /\ call' = done.call
           /\ cache' = done.cache
           /\ access_count' = done.access_count
           /\ stream' = StreamAfter(done.call, stream)
    /\ UNCHANGED <<config, last, probe, mha, threads, chat, mem, att, enc>>

\* ------------------------------------------------------------------------
\* stream_process_messages: the consumer asks for the next fragment
\* ------------------------------------------------------------------------
StreamNext ==
    /\ stream.pc \in {"yielding", "failing", "failed"}
    /\ stream' =
         IF stream.pc = "failing"
         THEN [stream EXCEPT !.pc = "failed", !.out = Append(@, StreamErrorFragment)]
         ELSE IF stream.pc = "failed"
         THEN [stream EXCEPT !.pc = "ended"]
         ELSE IF stream.i < Len(stream.words)
         THEN [stream EXCEPT !.i = @ + 1,
                             !.out = Append(@, StreamFragment(stream.words, stream.i + 1))]
         ELSE [stream EXCEPT !.pc = "ended"]
    /\ UNCHANGED <<config, cache, access_count, call, last, probe, mha, threads, chat, mem, att, enc>>

\* ------------------------------------------------------------------------
\* Another task uses attention_cache while a call waits or between calls
\* ------------------------------------------------------------------------
Forget(c) == IF Ended(c) THEN NoCall ELSE c

OtherPut(key, value) ==
    /\ ATTENTION_CACHE_ENABLED
    /\ LET p == CachePut(cache, access_count, max_size, key, value)
       IN  /\ cache' = p.cache
           /\ access_count' = p.access_count
    /\ call' = Forget(call)
    /\ UNCHANGED <<config, stream, last, probe, mha, threads, chat, mem, att, enc>>

\* AttentionOrchestrator.clear_cache
OtherClear ==
    /\ ATTENTION_CACHE_ENABLED
    /\ cache # EmptyMap
    /\ cache' = EmptyMap
    /\ access_count' = <<>>
    /\ call' = Forget(call)
    /\ UNCHANGED <<config, stream, last, probe, mha, threads, chat, mem, att, enc>>

\* ------------------------------------------------------------------------
\* AttentionCache used on its own, as TestAttentionCache does
\* ------------------------------------------------------------------------
CacheKeys == { <<"key_0">>, <<"key_1">>, <<"key_2">>, <<"key_3">> }

\* a tensor, and an AttentionResult as process_messages hands to put
CacheValues == {Tensor("many"), AttentionResult(LocalOkText, LOCAL_CONFIDENCE, "local")}

\* the operation made, with the cache as it was before it; recent and
\* created are filled in by the operation
Op(op, key, value, exc) ==
    [op |-> op, key |-> key, value |-> value, exc |-> exc,
     before |-> cache, counts |-> access_count,
     recent |-> <<>>, recentBefore |-> last.recent,
     created |-> <<>>, createdBefore |-> last.created]

\* the stored keys from the least to the most recently used (a get that
\* hits and a put that completes use the key)
RecentAfter(seq, key, stored, used) ==
    IF used
    THEN Append(SelectSeq(seq, LAMBDA k : k \in stored /\ k # key), key)
    ELSE SelectSeq(seq, LAMBDA k : k \in stored)

\* the stored keys in the order in which their entries were created
CreatedAfter(seq, key, stored, evicted) ==
    LET kept == SelectSeq(seq, LAMBDA k : k \in stored /\ k \notin evicted)
    IN  IF key \in stored /\ (\A i \in DOMAIN kept : kept[i] # key)
        THEN Append(kept, key)
        ELSE kept

Get(key) ==
    /\ key \in DOMAIN cache => CountGet(access_count, key) < MaxCount
    /\ LET got == CacheGet(cache, access_count, key)
       IN  /\ cache' = got.cache
           /\ access_count' = got.access_count
           /\ last' = [Op("get", key, got.value, "") EXCEPT
                         !.recent = RecentAfter(last.recent, key, DOMAIN cache,
                                                key \in DOMAIN cache),
                         !.created = last.created]
    /\ UNCHANGED <<config, call, stream, probe, mha, threads, chat, mem, att, enc>>

Put(key, value) ==
    /\ LET p == CachePut(cache, access_count, max_size, key, value)
       IN  /\ cache' = p.cache
           /\ access_count' = p.access_count
           /\ last' = [Op("put", key, value, p.exc) EXCEPT
                         !.recent = RecentAfter(last.recent, key, DOMAIN p.cache,
                                                p.exc = ""),
                         !.created = CreatedAfter(last.created, key, DOMAIN p.cache,
                                                  p.evicted)]
    /\ UNCHANGED <<config, call, stream, probe, mha, threads, chat, mem, att, enc>>

Clear ==
    /\ cache' = EmptyMap
    /\ access_count' = <<>>
    /\ last' = Op("clear", <<>>, None, "")
    /\ UNCHANGED <<config, call, stream, probe, mha, threads, chat, mem, att, enc>>

\* ------------------------------------------------------------------------
\* _create_cache_key applied to two message lists
\* ------------------------------------------------------------------------
ProbeContents == { <<>>, <<"a">>, <<"b">>, <<"a", SP, "b">> }

ProbeMessages ==
    {<<>>}
    \cup {<<ChatMessage("user", c)>> : c \in ProbeContents}
    \cup {<<ChatMessage("user", c), ChatMessage("assistant", d)>> :
             c \in ProbeContents, d \in ProbeContents}

CreateKeys(a, b) ==
    /\ ~probe.done
    /\ probe' = [a |-> a, b |-> b, ka |-> _create_cache_key(a),
                 kb |-> _create_cache_key(b), done |-> TRUE]
    /\ UNCHANGED <<config, cache, access_count, call, stream, last, mha, threads, chat, mem, att, enc>>

\* ------------------------------------------------------------------------
\* AttentionCache used by the request threads of the web server: the cache
\* has no lock, a thread can be suspended between any two statements of get
\* and put
\* ------------------------------------------------------------------------
ThreadKeys == { <<"key_0">>, <<"key_1">> }

Leave(th, exc) == [th EXCEPT !.pc = "idle", !.exc = exc]

\* a thread enters get(key) or put(key, value)
ThreadCall(t, op, key, value) ==
    /\ threads[t].pc = "idle"
    /\ op = "get" => value = None
    /\ op = "put" => value # None
    /\ (op = "get" /\ key \in DOMAIN cache) => CountGet(access_count, key) < MaxCount
    /\ threads' = [threads EXCEPT ![t] =
                      [pc |-> IF op = "get" THEN "get_test" ELSE "put_test",
                       op |-> op, key |-> key, value |-> value,
                       victim |-> <<>>, exc |-> ""]]
    /\ UNCHANGED <<config, cache, access_count, call, stream, last, probe, mha, chat, mem, att, enc>>

\* one statement of AttentionCache.get
GetStep(t) ==
    LET th == threads[t]
    IN  /\ th.pc \in {"get_test", "get_count", "get_return"}
        /\ IF th.pc = "get_test"
           THEN \* if key in self.cache:
                /\ threads' = [threads EXCEPT ![t] =
                                  IF th.key \in DOMAIN cache
                                  THEN [th EXCEPT !.pc = "get_count"]
                                  ELSE Leave(th, "")]
                /\ UNCHANGED <<cache, access_count>>
           ELSE IF th.pc = "get_count"
           THEN \* self.access_count[key] = self.access_count.get(key, 0) + 1
                /\ access_count' = CountSet(access_count, th.key,
                                            CountGet(access_count, th.key) + 1)
                /\ threads' = [threads EXCEPT ![t] = [th EXCEPT !.pc = "get_return"]]
                /\ UNCHANGED cache
           ELSE \* return self.cache[key]
                /\ threads' = [threads EXCEPT ![t] =
                                  IF th.key \in DOMAIN cache
                                  THEN Leave(th, "")
                                  ELSE Leave(th, "KeyError")]
                /\ UNCHANGED <<cache, access_count>>
        /\ UNCHANGED <<config, call, stream, last, probe, mha, chat, mem, att, enc>>

\* one statement of AttentionCache.put
PutStep(t) ==
    LET th == threads[t]
    IN  /\ th.pc \in {"put_test", "put_choose", "put_del_cache", "put_del_count",
                      "put_store", "put_count"}
        /\ IF th.pc = "put_test"
           THEN \* if len(self.cache) >= self.max_size:
                /\ threads' = [threads EXCEPT ![t] =
                                  [th EXCEPT !.pc = IF NeedsEviction(cache, max_size)
                                                    THEN "put_choose" ELSE "put_store"]]
                /\ UNCHANGED <<cache, access_count>>
           ELSE IF th.pc = "put_choose"
           THEN \* lru_key = min(self.access_count.keys(), key=self.access_count.get)
                /\ threads' = [threads EXCEPT ![t] =
                                  IF access_count = <<>>
                                  THEN Leave(th, "ValueError")
                                  ELSE [th EXCEPT !.pc = "put_del_cache",
                                                  !.victim = LruKey(access_count)]]
                /\ UNCHANGED <<cache, access_count>>
           ELSE IF th.pc = "put_del_cache"
           THEN \* del self.cache[lru_key]
                IF th.victim \in DOMAIN cache
                THEN /\ cache' = MapDel(cache, th.victim)
                     /\ threads' = [threads EXCEPT ![t] = [th EXCEPT !.pc = "put_del_count"]]
                     /\ UNCHANGED access_count
                ELSE /\ threads' = [threads EXCEPT ![t] = Leave(th, "KeyError")]
                     /\ UNCHANGED <<cache, access_count>>
           ELSE IF th.pc = "put_del_count"
           THEN \* del self.access_count[lru_key]
                IF th.victim \in CountKeys(access_count)
                THEN /\ access_count' = CountDel(access_count, th.victim)
                     /\ threads' = [threads EXCEPT ![t] = [th EXCEPT !.pc = "put_store"]]
                     /\ UNCHANGED cache
                ELSE /\ threads' = [threads EXCEPT ![t] = Leave(th, "KeyError")]
                     /\ UNCHANGED <<cache, access_count>>
           ELSE IF th.pc = "put_store"
           THEN \* self.cache[key] = value.clone().detach()
                IF HasClone(th.value)
                THEN /\ cache' = MapSet(cache, th.key, CloneDetach(th.value))
                     /\ threads' = [threads EXCEPT ![t] = [th EXCEPT !.pc = "put_count"]]
                     /\ UNCHANGED access_count
                ELSE /\ threads' = [threads EXCEPT ![t] = Leave(th, "AttributeError")]
                     /\ UNCHANGED <<cache, access_count>>
           ELSE \* self.access_count[key] = 1
                /\ access_count' = CountSet(access_count, th.key, 1)
                /\ threads' = [threads EXCEPT ![t] = Leave(th, "")]
                /\ UNCHANGED cache
        /\ UNCHANGED <<config, call, stream, last, probe, mha, chat, mem, att, enc>>

\* ------------------------------------------------------------------------
\* MultiHeadAttention(d_model, num_heads) is constructed
\* ------------------------------------------------------------------------
DModels == 0..MaxDModel

HeadCounts == (0 - 2)..MaxHeads

Construct(d_model, num_heads) ==
    /\ mha' = MultiHeadAttention_init(d_model, num_heads)
    /\ UNCHANGED <<config, cache, access_count, call, stream, last, probe, threads, chat, mem, att, enc>>

\* everything the orchestrator and its cache own
orchestration == <<config, cache, access_count, call, stream, last, probe, mha, threads>>

\* ------------------------------------------------------------------------
\* AsyncChatClient.chat_completion under @retry_with_backoff(max_retries=3)
\* ------------------------------------------------------------------------
\* the ways the awaited self.client.chat.completions.create can end
ApiOutcomes == {"ok", "RateLimitError", "APIConnectionError", "APITimeoutError", "Exception"}

\* the errors the decorator retries with a growing delay
Transient == {"RateLimitError", "APIConnectionError", "APITimeoutError"}

\* model=None, or a model named by the caller
ChatModels == {"", "gpt-3.5-turbo", "gpt-4o"}

ChatOutput == <<"output">>

\* select_model reads self.token_manager, which __init__ never sets
select_model == [exc |-> "AttributeError", model |-> ""]

\* what the body of chat_completion hands to the decorator once the API
\* request has ended in `outcome` ("AttributeError": select_model raised
\* before any request): the try block returns (output, True), the
\* `except Exception` returns the error text and False; nothing is raised
chat_completion(outcome) ==
    IF outcome = "ok"
    THEN [raised |-> "", text |-> ChatOutput, success |-> TRUE]
    ELSE [raised |-> "", text |-> ClientFailureText, success |-> FALSE]

\* one turn of the wrapper's loop `for attempt in range(max_retries + 1)`
\* around a body that ended as `body`
retry_with_backoff(body, attempt) ==
    IF body.raised = "" THEN "return"
    ELSE IF attempt >= MAX_RETRIES THEN "raise"
    ELSE "retry"

\* the wrapper after the body ended: return, raise, or sleep and call the
\* body again, which leads to the next API request
ChatAfter(c, outcome) ==
    LET body == chat_completion(outcome)
        next == retry_with_backoff(body, c.attempt)
    IN  IF next = "return"
        THEN [c EXCEPT !.pc = "returned", !.outcome = outcome,
                       !.text = body.text, !.success = body.success]
        ELSE IF next = "raise"
        THEN [c EXCEPT !.pc = "raised", !.outcome = outcome, !.exc = body.raised]
        ELSE [c EXCEPT !.pc = "await_api", !.outcome = outcome,
                       !.attempt = @ + 1, !.requests = @ + 1, !.issued = @ + 1]

\* await client.chat_completion(messages, model), up to the API request
ChatCompletion(req, model) ==
    /\ chat.pc \in {"idle", "returned", "raised"}
    /\ chat.issued < MaxRequests
    /\ LET c == [NoChat EXCEPT !.req = req, !.model = model, !.issued = chat.issued]
           chosen == IF model = "" THEN select_model ELSE [exc |-> "", model |-> model]
       IN  chat' = IF chosen.exc # ""
                   THEN ChatAfter(c, chosen.exc)
                   ELSE [c EXCEPT !.pc = "await_api", !.model = chosen.model,
                                  !.requests = 1, !.issued = @ + 1]
    /\ UNCHANGED <<orchestration, mem, att, enc>>

\* the API request ends
ApiReturn(outcome) ==
    /\ chat.pc = "await_api"
    /\ chat' = ChatAfter(chat, outcome)
    /\ UNCHANGED <<orchestration, mem, att, enc>>

\* ------------------------------------------------------------------------
\* AsyncMemoryManager: add_turn, and flush_to_disk as a task of the event
\* loop.  A turn is its number in the order of add_turn.  The loop runs a
\* coroutine from one await to the next; disk errors are not modelled.
\* ------------------------------------------------------------------------
AutoFlush == 1..MaxFlushTasks

InSeq(x, seq) == \E i \in DOMAIN seq : seq[i] = x

\* add_turn, called by process_user_input on the session's coroutine
AddTurn ==
    /\ ~mem.closing
    /\ mem.n < MaxTurns
    /\ LET pending == Append(mem.pending_writes, mem.n + 1)
           full == Len(pending) >= WRITE_BUFFER_SIZE
           free == {t \in AutoFlush : mem.flush[t].pc \in {"idle", "done"}}
           task == CHOOSE t \in free : \A u \in free : t <= u
       IN  /\ full => free # {}
           /\ mem' = [mem EXCEPT
                        !.n = @ + 1,
                        !.pending_writes = pending,
                        !.flush = IF full
                                  THEN [@ EXCEPT ![task] = [NoFlush EXCEPT !.pc = "start"]]
                                  ELSE @]
    /\ UNCHANGED <<orchestration, chat, att, enc>>

\* cleanup: await self.memory_manager.flush_to_disk() at shutdown
Cleanup ==
    /\ ~mem.closing
    /\ mem' = [mem EXCEPT !.closing = TRUE,
                          !.flush = [@ EXCEPT ![0] = [NoFlush EXCEPT !.pc = "start"]]]
    /\ UNCHANGED <<orchestration, chat, att, enc>>

\* flush_to_disk from one suspension to the next
FlushStep(t) ==
    /\ LET f == mem.flush[t]
       IN
       \/ \* if not self.pending_writes: return; async with self._write_lock
          /\ f.pc = "start"
          /\ mem' = IF mem.pending_writes = <<>>
                    THEN [mem EXCEPT !.flush[t].pc = "done"]
                    ELSE IF mem.locked
                    THEN [mem EXCEPT !.flush[t].pc = "wait"]
                    ELSE [mem EXCEPT !.locked = TRUE, !.flush[t].pc = "reading"]
       \/ \* the lock is released to a waiting task
          /\ f.pc = "wait"
          /\ ~mem.locked
          /\ mem' = [mem EXCEPT !.locked = TRUE, !.flush[t].pc = "reading"]
       \/ \* MEMORY_JSON is read; the pending turns of this moment are
          \* appended to data; the file is opened for writing
          /\ f.pc = "reading"
          /\ mem' = [mem EXCEPT !.flush[t].pc = "writing_json",
                                !.flush[t].data = mem.json \o mem.pending_writes]
       \/ \* json.dumps(data) is written; MEMORY_TXT is opened
          /\ f.pc = "writing_json"
          /\ mem' = [mem EXCEPT !.json = f.data,
                                !.flush[t].pc = "writing_txt", !.flush[t].i = 0]
       \/ \* for turn in self.pending_writes: await f.write(...), over the
          \* list as it is at each step; then the file is closed
          /\ f.pc = "writing_txt"
          /\ mem' = IF f.i < Len(mem.pending_writes)
                    THEN [mem EXCEPT !.txt = Append(@, mem.pending_writes[f.i + 1]),
                                     !.flush[t].i = @ + 1]
                    ELSE [mem EXCEPT !.flush[t].pc = "closing"]
       \/ \* self.pending_writes.clear(); the lock is released
          /\ f.pc = "closing"
          /\ mem' = [mem EXCEPT !.pending_writes = <<>>, !.locked = FALSE,
                                !.flush[t].pc = "done"]
    /\ UNCHANGED <<orchestration, chat, att, enc>>

\* ------------------------------------------------------------------------
\* Tensors of the attention modules: a tensor is its shape, a sequence of
\* sizes; dimensions are numbered from 0 as in torch
\* ------------------------------------------------------------------------
\* no tensor: `mask is None`
NoTensor == <<>>

\* Tensor.unsqueeze(dim)
Unsqueeze(shape, dim) ==
    SubSeq(shape, 1, dim) \o <<1>> \o SubSeq(shape, dim + 1, Len(shape))

\* Tensor.transpose(a, b)
Transpose(shape, a, b) ==
    [i \in DOMAIN shape |-> IF i = a + 1 THEN shape[b + 1]
                            ELSE IF i = b + 1 THEN shape[a + 1]
                            ELSE shape[i]]

\* Tensor.repeat(*sizes): fewer sizes than dimensions is a RuntimeError
Repeat(shape, sizes) ==
    IF Len(sizes) < Len(shape)
    THEN [exc |-> "RuntimeError", shape |-> NoTensor]
    ELSE LET lead == Len(sizes) - Len(shape)
         IN  [exc |-> "",
              shape |-> [i \in DOMAIN sizes |->
                            sizes[i] * (IF i <= lead THEN 1 ELSE shape[i - lead])]]

\* batch_size, seq_len, d_k = query.size()
UnpackThree(shape) == IF Len(shape) = 3 THEN "" ELSE "ValueError"

RECURSIVE SumSeq(_)
SumSeq(seq) == IF seq = <<>> THEN 0 ELSE Head(seq) + SumSeq(Tail(seq))

RECURSIVE Pow2(_)
Pow2(n) == IF n = 0 THEN 1 ELSE 2 * Pow2(n - 1)

\* ------------------------------------------------------------------------
\* ScaledDotProductAttention.forward.  The scores QK^T / sqrt(d_k) of one
\* batch element are an input; a row of weights is a sequence of numerators
\* over one denominator; 2^score stands for exp(score).
\* ------------------------------------------------------------------------
ScoreValues == 0..MaxScore

\* scores.masked_fill(mask == 0, -1e9) and F.softmax(scores, dim=-1) of one
\* row: a masked column weighs 0 beside an unmasked one, and a row masked
\* everywhere is uniform
Softmax(row, maskedCols) ==
    LET live == DOMAIN row \ maskedCols
        num == [j \in DOMAIN row |->
                   IF live = {} THEN 1 ELSE IF j \in live THEN Pow2(row[j]) ELSE 0]
    IN  [num |-> num, den |-> SumSeq(num)]

\* self.dropout(attention_weights): in training mode an element is zeroed
\* or scaled by 1 / (1 - p); in eval mode the identity
Dropout(row, training, dropped) ==
    IF training
    THEN [num |-> [j \in DOMAIN row.num |->
                      IF j \in dropped THEN 0 ELSE row.num[j] * 100],
          den |-> row.den * (100 - DROPOUT_PERCENT)]
    ELSE row

\* torch.allclose(sum of the row, 1, atol=1e-6)
RowSumsToOne(row) ==
    LET total == SumSeq(row.num)
        diff == IF total >= row.den THEN total - row.den ELSE row.den - total
    IN  diff * TOLERANCE_INV <= row.den

\* the queries handed to the module: [1, seq_len, 1], and the
\* [batch, heads, seq_len, d_k] that MultiHeadAttention hands over
AttentionQueries == {<<1, s, 1>> : s \in 1..MaxSeq} \cup {<<1, 1, 1, 1>>}

\* module.train() / module.eval()
SetMode(training) ==
    /\ att.training # training
    /\ att' = [att EXCEPT !.training = training]
    /\ UNCHANGED <<orchestration, chat, mem, enc>>

\* the score matrices of one batch element
ScoreMatrices == UNION {[1..s -> [1..s -> ScoreValues]] : s \in 1..MaxSeq}

Positions == (1..MaxSeq) \X (1..MaxSeq)

\* output, attention_weights = self.attention(Q, K, V, mask); the scores
\* have the query's seq_len, the mask (given or not) and the elements that
\* dropout zeroes lie inside them, and dropout draws only in training mode
Forward(query, scores, masked, maskedCols, dropped) ==
    /\ Len(scores) = (IF Len(query) = 3 THEN query[2] ELSE 1)
    /\ maskedCols \subseteq DOMAIN scores
    /\ dropped \subseteq (DOMAIN scores) \X (DOMAIN scores)
    /\ ~masked => maskedCols = {}
    /\ ~att.training => dropped = {}
    /\ att' =
         IF UnpackThree(query) # ""
         THEN [NoAttention EXCEPT !.pc = "raised", !.training = att.training,
                                  !.query = query, !.masked = masked,
                                  !.exc = UnpackThree(query)]
         ELSE [NoAttention EXCEPT
                  !.pc = "returned", !.training = att.training,
                  !.query = query, !.masked = masked,
                  !.weights = [i \in DOMAIN scores |->
                                  Dropout(Softmax(scores[i], maskedCols), att.training,
                                          {j \in DOMAIN scores : <<i, j>> \in dropped})],
                  !.output = query]
    /\ UNCHANGED <<orchestration, chat, mem, enc>>

\* ------------------------------------------------------------------------
\* AttentionModel.encode_text, at the level of shapes
\* ------------------------------------------------------------------------
\* (d_model, num_heads) of the models that can be constructed: num_heads
\* divides d_model, and d_model is even (the sinusoidal table fills the even
\* and the odd columns from one div_term)
EncoderModels ==
    {m \in (1..MaxDModel) \X (1..MaxHeads) :
        /\ PyMod(m[1], 2) = 0
        /\ MultiHeadAttention_init(m[1], m[2]).exc = ""}

\* create_padding_mask: (x != pad_token).unsqueeze(1).unsqueeze(2)
create_padding_mask(x) == Unsqueeze(Unsqueeze(x, 1), 2)

\* TokenEmbedding.forward: self.embedding(x) * math.sqrt(self.d_model)
TokenEmbedding(x, d_model) == Append(x, d_model)

\* PositionalEncoding.forward on [seq_len, batch, d_model], seq_len <= max_len
PositionalEncoding(x) == x

\* MultiHeadAttention.forward(query, key, value, mask) with query = key = value
MultiHeadAttention_forward(query, mask, num_heads, d_k) ==
    LET batch_size == query[1]
        seq_len == query[2]
        d_model == query[3]
        Q == Transpose(<<batch_size, seq_len, num_heads, d_k>>, 1, 2)
        heads == IF mask = NoTensor
                 THEN [exc |-> "", shape |-> NoTensor]
                 ELSE Repeat(Unsqueeze(mask, 1), <<1, num_heads, 1, 1>>)
    IN  IF heads.exc # "" THEN [exc |-> heads.exc, shape |-> NoTensor]
        ELSE IF UnpackThree(Q) # "" THEN [exc |-> UnpackThree(Q), shape |-> NoTensor]
        ELSE [exc |-> "", shape |-> <<batch_size, seq_len, d_model>>]

\* the masks a caller passes: none, or one of [batch, seq_len, seq_len]
MaskKinds == {"none", "square"}

\* encode_text(x, mask) up to the encoder
EncodeText(batch, seq_len, m, kind) ==
    /\ enc.pc \in {"idle", "returned", "raised"}
    /\ LET x == <<batch, seq_len>>
           mask == IF kind = "none" THEN create_padding_mask(x)
                   ELSE <<batch, seq_len, seq_len>>
           embedded == TokenEmbedding(x, m[1])
           positioned == Transpose(PositionalEncoding(Transpose(embedded, 0, 1)), 0, 1)
       IN  enc' = [NoEncode EXCEPT !.pc = "encoder", !.input = x,
                                   !.given = (kind # "none"),
                                   !.x = positioned, !.mask = mask,
                                   !.d_model = m[1], !.num_heads = m[2]]
    /\ UNCHANGED <<orchestration, chat, mem, att>>

\* one TransformerEncoderLayer of `for layer in self.layers`, and after the
\* last one the layer norm and the return
EncoderLayer ==
    /\ enc.pc = "encoder"
    /\ LET d_k == MultiHeadAttention_init(enc.d_model, enc.num_heads).d_k
           attended == MultiHeadAttention_forward(enc.x, enc.mask, enc.num_heads, d_k)
       IN  enc' = IF attended.exc # ""
                  THEN [enc EXCEPT !.pc = "raised", !.exc = attended.exc]
                  ELSE IF enc.layer + 1 < TEST_ENCODER_LAYERS
                  THEN [enc EXCEPT !.layer = @ + 1, !.x = attended.shape]
                  ELSE [enc EXCEPT !.pc = "returned", !.layer = @ + 1,
                                   !.x = attended.shape, !.ret = attended.shape]
    /\ UNCHANGED <<orchestration, chat, mem, att>>

\* ------------------------------------------------------------------------
\* Specifications
\* ------------------------------------------------------------------------
Next ==
    \/ \E req \in ReqIds, uc \in BOOLEAN, lo \in LocalOutcomes : Begin(req, uc, "process", lo)
    \/ \E ro \in RemoteOutcomes, text \in RemoteTexts : RemoteReturn(ro, text)
    \/ \E key \in Keys, value \in Tensors : OtherPut(key, value)
    \/ OtherClear

Spec == Init /\ [][Next]_vars

\* the awaited chat_completion returns or raises
RemoteEnds == \E ro \in RemoteOutcomes, text \in RemoteTexts : RemoteReturn(ro, text)

\* the orchestrator with a remote client that ends every invocation
SpecLive == Init /\ [][Next]_vars /\ WF_vars(RemoteEnds)

\* the same orchestrator driven through stream_process_messages
NextStream ==
    \/ \E req \in ReqIds, lo \in LocalOutcomes : Begin(req, TRUE, "stream", lo)
    \/ \E ro \in RemoteOutcomes, text \in RemoteTexts : RemoteReturn(ro, text)
    \/ StreamNext

SpecStream == Init /\ [][NextStream]_vars

InitCache ==
    /\ ATTENTION_MODE = "hybrid"
    /\ HYBRID_MODE_THRESHOLD = HYBRID_MODE_THRESHOLD_DEFAULT
    /\ ATTENTION_CACHE_ENABLED = TRUE
    /\ max_size \in 1..MaxSize
    /\ InitRest

NextCache ==
    \/ \E key \in CacheKeys : Get(key)
    \/ \E key \in CacheKeys, value \in CacheValues : Put(key, value)
    \/ Clear

\* the cache of the unit test, and the smaller ones
InitCacheTest ==
    /\ ATTENTION_MODE = "hybrid"
    /\ HYBRID_MODE_THRESHOLD = HYBRID_MODE_THRESHOLD_DEFAULT
    /\ ATTENTION_CACHE_ENABLED = TRUE
    /\ max_size \in 1..TEST_CACHE_SIZE
    /\ InitRest

SpecCache == InitCacheTest /\ [][NextCache]_vars

\* AttentionCache(max_size) for any integer max_size
Capacities == {0 - 1, 0} \cup (1..MaxSize)

InitCacheAny ==
    /\ ATTENTION_MODE = "hybrid"
    /\ HYBRID_MODE_THRESHOLD = HYBRID_MODE_THRESHOLD_DEFAULT
    /\ ATTENTION_CACHE_ENABLED = TRUE
    /\ \E n \in Capacities :
          LET made == CacheInit(n)
          IN  /\ made.exc = ""
              /\ max_size = made.max_size
              /\ cache = made.cache
              /\ access_count = made.access_count
    /\ call = NoCall
    /\ stream = NoStream
    /\ last = NoOp
    /\ probe = NoProbe
    /\ mha = NoModule
    /\ threads = [t \in ThreadIds |-> NoThread]
    /\ chat = NoChat
    /\ mem = NoMem
    /\ att = NoAttention
    /\ enc = NoEncode

SpecCacheAny == InitCacheAny /\ [][NextCache]_vars

NextModule == \E d_model \in DModels, num_heads \in HeadCounts : Construct(d_model, num_heads)

SpecModule == InitCache /\ [][NextModule]_vars

NextThreads ==
    \/ \E t \in ThreadIds, key \in ThreadKeys : ThreadCall(t, "get", key, None)
    \/ \E t \in ThreadIds, key \in ThreadKeys, value \in CacheValues :
          ThreadCall(t, "put", key, value)
    \/ \E t \in ThreadIds : GetStep(t)
    \/ \E t \in ThreadIds : PutStep(t)

SpecThreads == InitCache /\ [][NextThreads]_vars

NextKey == \E a \in ProbeMessages, b \in ProbeMessages : CreateKeys(a, b)

SpecKey == InitCache /\ [][NextKey]_vars

NextChat ==
    \/ \E req \in ReqIds, model \in ChatModels : ChatCompletion(req, model)
    \/ \E outcome \in ApiOutcomes : ApiReturn(outcome)

SpecChat == InitCache /\ [][NextChat]_vars

NextMemory ==
    \/ AddTurn
    \/ Cleanup
    \/ \E t \in FlushIds : FlushStep(t)

SpecMemory == InitCache /\ [][NextMemory]_vars

NextAttention ==
    \/ \E training \in BOOLEAN : SetMode(training)
    \/ \E query \in AttentionQueries, scores \in ScoreMatrices, masked \in BOOLEAN,
          maskedCols \in SUBSET (1..MaxSeq), dropped \in SUBSET Positions :
          Forward(query, scores, masked, maskedCols, dropped)

SpecAttention == InitCache /\ [][NextAttention]_vars

NextEncoder ==
    \/ \E batch \in 1..MaxBatch, seq_len \in 1..MaxSeq, m \in EncoderModels,
          kind \in MaskKinds : EncodeText(batch, seq_len, m, kind)
    \/ EncoderLayer

SpecEncoder == InitCache /\ [][NextEncoder]_vars

\* ------------------------------------------------------------------------
\* Properties
\* ------------------------------------------------------------------------
\* the number of words of a request, counted as its chunks "w"
WordChunks(messages) ==
    LET text == Join(Contents(messages))
    IN  Cardinality({i \in DOMAIN text : text[i] = "w"})

ReqWordCount == [r \in ReqIds |-> WordChunks(Requests[r])]

KeyFound(c) == c.lookup \in {"hit", "falsy", "error"}

\* C1: process_messages always returns an AttentionResult and never lets an
\* exception out, in every mode, with or without caching.
C1_NeverRaises ==
    /\ call.pc # "raised"
    /\ call.pc = "returned" => call.ret.kind = "result"

C3_CachedAboveHalf ==
    /\ \A k \in DOMAIN cache : cache[k].kind = "result" => cache[k].confidence > 50
    /\ call.putArg.kind = "result" => call.putArg.confidence > 50
    /\ (call.pc = "returned" /\ call.lookup = "hit" /\ call.ret.kind = "result")
          => call.ret.confidence > 50

C3_Witness ==
    /\ Ended(call) /\ Caching(call)
    /\ call.putArg.kind = "result"

\* C4: in hybrid mode, a call that found nothing in the cache runs the local
\* model first exactly when the request has fewer than 100 words; at 100
\* words or more the local model is not run and the remote client is called
\* directly.
C4_HybridLocalIffShort ==
    (ATTENTION_MODE = "hybrid" /\ call.pc # "idle" /\ call.lookup \in {"miss", "skipped"}) =>
        LET n == ReqWordCount[call.req]
        IN  /\ call.nLocal = 1 <=> n < 100
            /\ n >= 100 => /\ call.nLocal = 0
                           /\ call.stage = "direct"
                           /\ Ended(call) => call.nRemote = 1
            /\ (n < 100 /\ call.pc = "await_remote") => call.stage = "fallback"

C4_Witness ==
    /\ ATTENTION_MODE = "hybrid"
    /\ call.pc = "returned" /\ call.lookup = "miss"
    /\ ReqWordCount[call.req] = 100
    /\ call.nLocal = 0 /\ call.nRemote = 1

\* C5: in hybrid mode, after a local result below HYBRID_MODE_THRESHOLD the
\* remote client is invoked too and the call returns the result of higher
\* confidence (the local one on a tie); at or above the threshold the remote
\* client is not invoked.
C5_FallbackReturnsHigher ==
    (ATTENTION_MODE = "hybrid" /\ Ended(call) /\ call.nLocal = 1) =>
        IF call.local.confidence < HYBRID_MODE_THRESHOLD
        THEN /\ call.nRemote = 1
             /\ call.pc = "returned"
             /\ LET best == IF call.remote.confidence > call.local.confidence
                            THEN call.remote ELSE call.local
                IN  /\ call.ret.content = best.content
                    /\ call.ret.confidence = best.confidence
        ELSE call.nRemote = 0

C8_KeysDiffer ==
    (probe.done /\ Contents(probe.a) # Contents(probe.b)) => probe.ka # probe.kb

\* C9: the stream computes the whole result through process_messages, then
\* yields one fragment per word of its content, in order: the first word
\* bare, every later word after one space; it ends after the last word and
\* yields nothing for an empty content.
C9_StreamFragments ==
    /\ stream.pc = "computing" => stream.out = <<>>
    /\ (stream.pc \in {"yielding", "ended"} /\ ~stream.failed) =>
        LET W == Split(stream.content)
        IN  /\ call.pc = "returned" /\ call.ret.content = stream.content
            /\ Len(stream.out) <= Len(W)
            /\ \A k \in 1..Len(stream.out) :
                  stream.out[k] = IF k = 1 THEN W[1] ELSE <<SP>> \o W[k]
            /\ stream.pc = "ended" => Len(stream.out) = Len(W)
            /\ (stream.pc = "ended" /\ stream.content = <<"a", SP, SP, "b", SP, "c">>)
                  => stream.out = << <<"a">>, <<SP, "b">>, <<SP, "c">> >>
            /\ stream.content = <<>> => stream.out = <<>>

C9_Witness ==
    /\ stream.pc = "ended" /\ ~stream.failed
    /\ stream.content = <<"a", SP, SP, "b", SP, "c">>
    /\ Len(stream.out) = 3

\* C10: a returned result has confidence 0.0 exactly when the path that made
\* it caught a failure; a local or remote result made without failure has a
\* confidence above 0, and every confidence lies in [0, 1].
C10_ZeroIffFailure ==
    /\ call.local.kind = "result" =>
          /\ call.local.confidence = 0 <=> call.lo = "raise"
          /\ call.local.confidence \in 0..100
    /\ call.remote.kind = "result" =>
          /\ call.remote.confidence = 0 <=> call.ro \in {"fail", "raise"}
          /\ call.remote.confidence \in 0..100
    /\ (call.pc = "returned" /\ call.lookup # "hit") =>
          LET failed == IF call.ret.method = "local"
                        THEN call.lo = "raise"
                        ELSE call.ro \in {"fail", "raise"}
          IN  /\ call.ret.kind = "result"
              /\ call.ret.confidence = 0 <=> failed
              /\ call.ret.confidence \in 0..100

C10_Witness ==
    /\ call.pc = "returned" /\ call.lookup # "hit"
    /\ call.ro = "fail"
    /\ call.ret = call.remote
    /\ call.ret.confidence = 0

\* C11: on a cache miss, remote mode invokes the remote client and never
\* the local model, and local mode always invokes the local model, whatever
\* the word count of the request.
C11_ModeDecidesPath ==
    (call.pc # "idle" /\ call.lookup \in {"miss", "skipped"}) =>
        /\ ATTENTION_MODE = "openai" =>
              /\ call.nLocal = 0
              /\ call.stage = "direct"
              /\ Ended(call) => call.nRemote = 1
        /\ ATTENTION_MODE = "local" => call.nLocal = 1

C11_Witness ==
    /\ ATTENTION_MODE = "local"
    /\ Ended(call) /\ call.lookup = "miss"
    /\ ReqWordCount[call.req] = 100
    /\ call.nLocal = 1

\* C12: whenever the local path was taken, in local mode as in hybrid mode,
\* a local result below the hybrid threshold makes the call invoke the remote
\* client too and return the result of higher confidence.
C12_FallbackInEveryMode ==
    (Ended(call) /\ call.nLocal = 1
                 /\ call.local.confidence < HYBRID_MODE_THRESHOLD) =>
        /\ call.nRemote = 1
        /\ call.pc = "returned"
        /\ call.ret.confidence =
              IF call.remote.confidence > call.local.confidence
              THEN call.remote.confidence ELSE call.local.confidence

\* C13: a returned result has method "hybrid" exactly when the local path
\* was attempted, the remote fallback was invoked and the remote confidence
\* was strictly higher; a result kept from the local path has method
\* "local", one from a direct remote call has the remote method.
C13_HybridTag ==
    (call.pc = "returned" /\ call.lookup # "hit") =>
        LET won == /\ call.nLocal = 1 /\ call.nRemote = 1
                   /\ call.stage = "fallback"
                   /\ call.remote.confidence > call.local.confidence
        IN  /\ call.ret.method = "hybrid" <=> won
            /\ (call.nLocal = 1 /\ ~won) => call.ret.method = "local"
            /\ call.stage = "direct" => call.ret.method = "openai"

C13_Witness ==
    /\ call.pc = "returned" /\ call.stage = "fallback"
    /\ call.ret.method = "hybrid"
    /\ call.ret.content = call.remote.content
    /\ call.remote.method = "openai"

\* C14: a cache built with capacity N >= 1 never holds more than N entries,
\* after any sequence of get, put and clear.
C14_AtMostCapacity == Cardinality(DOMAIN cache) <= max_size

C14_Witness ==
    /\ last.op = "put" /\ last.exc = ""
    /\ Cardinality(DOMAIN last.before) = max_size
    /\ Cardinality(DOMAIN cache) = max_size
    /\ last.key \in DOMAIN cache

\* C16: a cache of capacity max_size <= 0 cannot be constructed: no cache on
\* which get or put is called has a non-positive capacity.
C16_CapacityPositive == last.op # "none" => max_size >= 1

\* C17: MultiHeadAttention(d_model, num_heads) is rejected at construction
\* when num_heads does not divide d_model; every constructed instance has
\* d_k * num_heads = d_model.
C17_HeadsDivideModel ==
    mha.tried =>
        LET divides == \E q \in (0 - MaxDModel)..MaxDModel : q * mha.num_heads = mha.d_model
        IN  /\ (mha.num_heads = 0 \/ ~divides) => mha.exc # ""
            /\ mha.exc = "" => /\ mha.num_heads # 0
                               /\ mha.d_k * mha.num_heads = mha.d_model

C17_Witness ==
    /\ mha.tried /\ mha.exc = "AssertionError"
    /\ mha.d_model = 10 /\ mha.num_heads = 3

\* C18: get of a stored key returns the stored value and adds exactly 1 to
\* that key's counter, every other entry and counter staying as it was; get
\* of a key not stored returns None and changes nothing.
C18_GetFrame ==
    last.op = "get" =>
        IF last.key \in DOMAIN last.before
        THEN /\ last.value = last.before[last.key]
             /\ cache = last.before
             /\ CountKeys(access_count) = CountKeys(last.counts)
             /\ \A k \in CountKeys(last.counts) :
                   CountGet(access_count, k) =
                      CountGet(last.counts, k) + (IF k = last.key THEN 1 ELSE 0)
        ELSE /\ last.value = None
             /\ cache = last.before
             /\ access_count = last.counts

C18_Witness ==
    /\ last.op = "get"
    /\ last.key \in DOMAIN last.before
    /\ Cardinality(DOMAIN last.before) >= 2
    /\ CountGet(access_count, last.key) = 2

\* C19: after a put of key has completed, the counter of key is exactly 1,
\* whether the key was new or stored with a larger counter.
C19_PutResetsCounter ==
    (last.op = "put" /\ last.exc = "") => CountGet(access_count, last.key) = 1

C19_Witness ==
    /\ last.op = "put" /\ last.exc = ""
    /\ last.key \in DOMAIN last.before
    /\ CountGet(last.counts, last.key) > 1
    /\ Cardinality(DOMAIN last.before) < max_size

\* C20: for every value the system stores, a tensor as well as an
\* AttentionResult, put(k, v) completes and the get(k) that follows at once
\* returns a value equal to v.
C20_PutGetRoundTrip ==
    last.op = "put" =>
        /\ last.exc = ""
        /\ last.key \in DOMAIN cache
        /\ CacheGet(cache, access_count, last.key).value = last.value

LfuVictim(created, counts) ==
    created[CHOOSE i \in DOMAIN created :
               /\ \A j \in DOMAIN created :
                     CountGet(counts, created[i]) <= CountGet(counts, created[j])
               /\ \A j \in 1..(i - 1) :
                     CountGet(counts, created[j]) > CountGet(counts, created[i])]

EvictingPut ==
    /\ last.op = "put"
    /\ last.key \notin DOMAIN last.before
    /\ Cardinality(DOMAIN last.before) >= max_size

C27_ReputKeepsOthers ==
    (last.op = "put" /\ last.exc = "" /\ last.key \in DOMAIN last.before) =>
        /\ DOMAIN cache = DOMAIN last.before
        /\ \A k \in DOMAIN last.before \ {last.key} :
              /\ cache[k] = last.before[k]
              /\ CountGet(access_count, k) = CountGet(last.counts, k)

\* C28: after any sequence of get, put and clear, failed puts included, the
\* value map and the counter map have the same keys and every counter is an
\* integer >= 1.
C28_Bookkeeping ==
    /\ CountKeys(access_count) = DOMAIN cache
    /\ Len(access_count) = Cardinality(DOMAIN cache)
    /\ \A i \in DOMAIN access_count : access_count[i].n \in Nat \ {0}

C28_Witness ==
    /\ last.op = "put" /\ last.exc = "AttributeError"
    /\ DOMAIN last.before # {}
    /\ DOMAIN cache # DOMAIN last.before

\* C29: the stream raises nothing to its consumer. When computing the result
\* raises, the stream yields exactly one "[Stream Error: ...]" fragment and
\* then ends, with no word fragment before or after it; a stream whose
\* result was computed yields no error fragment.
C29_StreamErrorOnce ==
    /\ stream.pc \in {"idle", "computing", "yielding", "failing", "failed", "ended"}
    /\ (call.via = "stream" /\ call.pc = "raised") =>
          /\ stream.failed
          /\ stream.pc \in {"failing", "failed", "ended"}
    /\ stream.failed =>
          /\ stream.pc \in {"failing", "failed", "ended"}
          /\ stream.pc = "failing" => stream.out = <<>>
          /\ stream.pc \in {"failed", "ended"} => stream.out = <<StreamErrorFragment>>
    /\ ~stream.failed =>
          \A k \in DOMAIN stream.out : stream.out[k] # StreamErrorFragment

C29_Witness ==
    /\ call.via = "stream" /\ call.pc = "raised"
    /\ stream.pc = "ended" /\ stream.failed
    /\ stream.out = <<StreamErrorFragment>>

\* C24: chat_completion retries a transient OpenAI error (rate limit,
\* connection error, timeout): a failure reaches the caller only after
\* max_retries = 3 retries, so a call whose requests all fail transiently
\* has issued the API request 4 times.
C24_RetriesTransient ==
    (chat.pc \in {"returned", "raised"} /\ chat.outcome \in Transient) =>
        chat.requests = MAX_RETRIES + 1

\* C30: under every interleaving of add_turn with the flush tasks (the one
\* made at 5 pending turns, the one of shutdown) no turn is lost and none is
\* written twice: a turn leaves pending_writes only after it has been
\* written to the conversation file.
C30_NoTurnLost ==
    /\ \A k \in 1..mem.n : InSeq(k, mem.pending_writes) \/ InSeq(k, mem.json)
    /\ \A i, j \in DOMAIN mem.json : mem.json[i] = mem.json[j] => i = j

\* C23: without a mask, every row of the attention weights returned by
\* ScaledDotProductAttention.forward sums to 1 within 1e-6.
C23_RowsSumToOne ==
    (att.pc = "returned" /\ ~att.masked) =>
        \A i \in DOMAIN att.weights : RowSumsToOne(att.weights[i])

\* C22: encode_text(x) of a token tensor [batch, seq_len] within max_seq_len
\* returns a tensor [batch, seq_len, d_model], also when no mask is passed
\* and the padding mask [batch, 1, 1, seq_len] is used.
C22_EncodeShape ==
    /\ enc.pc # "raised"
    /\ enc.pc = "returned" => enc.ret = Append(enc.input, enc.d_model)

\* C21: provided every remote invocation returns or raises, every
\* process_messages call that was received and waits for the remote client
\* is eventually delivered: it returns an AttentionResult made by one of the
\* paths, also when the remote invocation fails.
C21_EveryCallDelivered ==
    (call.pc = "await_remote") ~>
        (call.pc = "returned" /\ call.ret.kind = "result"
                              /\ call.ret.method \in {"local", "openai", "hybrid"})

====
